---- MODULE Spec2Model ----
(***************************************************************************)
(* Model of the authentication / role-impersonation dependency chain of    *)
(* backend/app/api/deps.py, of the guarded delete handlers of the          *)
(* task_students and users endpoints, of parse_react_admin_params, and of  *)
(* CRUDStudyGroup.create_with_disciplines.                                 *)
(*                                                                         *)
(* Python strings are modelled as sequences of one-character strings, so   *)
(* that str.lower, str.isdigit, int() and str.split act on characters.     *)
(***************************************************************************)
EXTENDS Integers, Sequences, FiniteSets, TLC

VARIABLES
    req,      \* per database session: the request holding it, with its
              \* position in the dependency chain and its locals
    sess,     \* per database session: authorization and open transaction
    roles,    \* committed role catalog (pg_roles), role names
    users,    \* the user table: id -> record
    tasks,    \* the task_student table: id -> status
    resp,     \* the last CRUD response
    pin,      \* the query parameters handed to parse_react_admin_params
    pout,     \* what the call ended with
    study_groups,  \* the committed rows of the study group table, oldest first
    cwd       \* the running call of create_with_disciplines

vars == <<req, sess, roles, users, tasks, resp, pin, pout, study_groups, cwd>>

parseVars == <<pin, pout>>
authVars == <<req, sess, roles, parseVars>>
crudVars == <<users, tasks, resp>>
groupVars == <<study_groups, cwd>>

(***************************************************************************)
(* Bounds                                                                  *)
(***************************************************************************)
\* size of the session pool, which is also the number of requests in flight:
\* a request holds one session from get_db to get_db's exit
NumSessions == 2

Sessions == 1 .. NumSessions

\* ids a task may take
NumTasks == 2

TaskIds == 1 .. NumTasks

\* number of keys of a filter object
MaxKeys == 2

\* length of the discipline list of a StudyGroupCreate
MaxDisciplines == 2

\* rows the study group table may come to hold
MaxRows == 3

(***************************************************************************)
(* Python string operations                                                *)
(***************************************************************************)
AsciiDigits == {"0", "1", "2", "3", "4", "5", "6", "7", "8", "9"}

\* "sup2" stands for the one character U+00B2 (superscript two): a character
\* for which str.isdigit() is True and which int() does not accept.
OtherDigits == {"sup2"}

LowerChar(c) ==
    CASE c = "A" -> "a"
      [] c = "B" -> "b"
      [] c = "C" -> "c"
      [] c = "D" -> "d"
      [] c = "E" -> "e"
      [] c = "N" -> "n"
      [] c = "O" -> "o"
      [] c = "S" -> "s"
      [] c = "Y" -> "y"
      [] OTHER -> c

\* str.lower()
Lower(s) == [i \in DOMAIN s |-> LowerChar(s[i])]

\* str.isdigit(): non-empty and every character a Unicode digit
IsDigit(s) == Len(s) > 0 /\ \A i \in DOMAIN s : s[i] \in AsciiDigits \cup OtherDigits

\* int() accepts a string of decimal digits only
IntAccepts(s) == Len(s) > 0 /\ \A i \in DOMAIN s : s[i] \in AsciiDigits

DigitValue(c) ==
    CASE c = "0" -> 0 [] c = "1" -> 1 [] c = "2" -> 2 [] c = "3" -> 3
      [] c = "4" -> 4 [] c = "5" -> 5 [] c = "6" -> 6 [] c = "7" -> 7
      [] c = "8" -> 8 [] c = "9" -> 9

RECURSIVE IntOf(_)
IntOf(s) == IF Len(s) = 0 THEN 0
            ELSE 10 * IntOf(SubSeq(s, 1, Len(s) - 1)) + DigitValue(s[Len(s)])

(***************************************************************************)
(* The user table                                                          *)
(***************************************************************************)
NoUser == [found |-> FALSE, username |-> <<>>, is_active |-> FALSE, is_superuser |-> FALSE]

UserRow(name, active, super) ==
    [found |-> TRUE, username |-> name, is_active |-> active, is_superuser |-> super]

InitUsers ==
    (1 :> UserRow(<<"A", "n">>, TRUE, FALSE)) @@
    (2 :> UserRow(<<"b", "O">>, FALSE, TRUE))

\* crud.user.get_by_id / crud.user.get
get_by_id(id) == IF id \in DOMAIN users THEN users[id] ELSE NoUser

(***************************************************************************)
(* Bearer tokens                                                           *)
(***************************************************************************)
Token(sig, hasSub, sub) == [sig |-> sig, hasSub |-> hasSub, sub |-> sub]

Tokens ==
    { Token(FALSE, TRUE, <<"1">>),      \* decode / signature failure
      Token(TRUE, FALSE, <<>>),         \* no "sub" claim
      Token(TRUE, TRUE, <<"x">>),       \* non-numeric subject
      Token(TRUE, TRUE, <<"sup2">>),    \* digit character that is no decimal
      Token(TRUE, TRUE, <<"9">>),       \* numeric, no such identity
      Token(TRUE, TRUE, <<"1">>),
      Token(TRUE, TRUE, <<"2">>) }

Gates == {"active", "superuser"}

(***************************************************************************)
(* Database sessions                                                       *)
(***************************************************************************)
\* the authorization of a session nobody impersonates on
Default == <<"service">>

FreshSession == [auth |-> Default, durable |-> Default, pending |-> {}]

\* no request holds the session: it is in the pool
IdleRequest ==
    [pc |-> "idle", token |-> Token(FALSE, FALSE, <<>>),
     user |-> NoUser, check |-> FALSE, status |-> 0,
     fault |-> "none", log |-> <<>>]

pool == {c \in Sessions : req[c].pc = "idle"}

\* request r moves on after issuing the statement `what` on its session
Advance(r, pc2, what) ==
    [req EXCEPT ![r].pc = pc2, ![r].log = Append(@, what)]

\* the request leaves the chain with an HTTP status; get_db's exit still runs
Leave(r, code, why, what) ==
    [req EXCEPT ![r].pc = "teardown", ![r].status = code, ![r].fault = why,
                ![r].log = IF what = "" THEN @ ELSE Append(@, what)]

db_user(r) == req[r].user.username
rolname(r) == Lower(db_user(r))

(***************************************************************************)
(* get_db and the dependency chain of get_current_user_async               *)
(***************************************************************************)
\* a request arrives; get_db opens its session
get_db(r) ==
    /\ r \in pool
    /\ \E t \in Tokens :
         req' = [req EXCEPT ![r].pc = "token", ![r].token = t]
    /\ UNCHANGED <<sess, roles, crudVars, parseVars, groupVars>>

\* jwt.decode, the subject check and the isdigit check
decode_token(r) ==
    /\ req[r].pc = "token"
    /\ LET t == req[r].token IN
       req' = IF ~t.sig THEN Leave(r, 401, "credentials", "")
              ELSE IF ~t.hasSub \/ Len(t.sub) = 0 THEN Leave(r, 401, "credentials", "")
              ELSE IF ~IsDigit(t.sub) THEN Leave(r, 401, "credentials", "")
              ELSE [req EXCEPT ![r].pc = "lookup"]
    /\ UNCHANGED <<sess, roles, crudVars, parseVars, groupVars>>

\* int(token_data.sub) and crud.user.get_by_id
lookup_user(r) ==
    /\ req[r].pc = "lookup"
    /\ LET sub == req[r].token.sub IN
       req' = IF ~IntAccepts(sub) THEN Leave(r, 500, "ValueError", "")
              ELSE IF ~get_by_id(IntOf(sub)).found
                   THEN Leave(r, 401, "credentials", "select_user")
              ELSE [Advance(r, "read1", "select_user")
                        EXCEPT ![r].user = get_by_id(IntOf(sub))]
    /\ UNCHANGED <<sess, roles, crudVars, parseVars, groupVars>>

AfterRead(pc) ==
    CASE pc = "read1" -> "reset1"
      [] pc = "read2" -> "check"
      [] pc = "read3" -> "set"
      [] pc = "read4" -> "gate"

get_session_user(r) ==
    /\ req[r].pc \in {"read1", "read2", "read3", "read4"}
    /\ req' = Advance(r, AfterRead(req[r].pc), "read")
    /\ UNCHANGED <<sess, roles, crudVars, parseVars, groupVars>>

AfterReset(pc) == IF pc = "reset1" THEN "read2" ELSE "read3"

reset_session_user(r) ==
    /\ req[r].pc \in {"reset1", "reset2"}
    /\ req' = Advance(r, AfterReset(req[r].pc), "reset")
    /\ sess' = [sess EXCEPT ![r].auth = Default]
    /\ UNCHANGED <<roles, crudVars, parseVars, groupVars>>

\* the rows of pg_roles the session sees: committed roles and its own
\* uncommitted ones
VisibleRoles(c) == roles \cup sess[c].pending

\* variant of AfterCheck: the second reset is forgotten when the role exists
AfterCheck_NoSecondReset(found) == IF found THEN "read3" ELSE "create"

\* variant of check_rolname: the active check is missing
check_rolname_NoActiveCheck(r) ==
    /\ req[r].pc = "check"
    /\ req' = LET found == Lower(req[r].user.username) \in roles \cup sess[r].pending IN
              [req EXCEPT ![r].pc = IF found THEN "reset2" ELSE "create",
                          ![r].log = Append(@, "check"), ![r].check = found]
    /\ UNCHANGED <<sess, roles, users, tasks, resp, pin, pout, groupVars>>

\* "if not check_result: create_user_in_role(...)", then the second reset
AfterCheck(found) == IF found THEN "reset2" ELSE "create"

check_rolname(r) ==
    /\ req[r].pc = "check"
    /\ req' = IF ~req[r].user.is_active THEN Leave(r, 400, "user is not active", "")
              ELSE IF req[r].user.username # db_user(r)
                   THEN Leave(r, 400, "username not valid", "")
              ELSE LET found == rolname(r) \in VisibleRoles(r) IN
                   [Advance(r, AfterCheck(found), "check")
                        EXCEPT ![r].check = found]
    /\ UNCHANGED <<sess, roles, crudVars, parseVars, groupVars>>

\* the stored function create_user_in_role: the catalog's unique constraint
\* on the role name answers a second creation with a conflict
CreateRoleResult(catalog, name) ==
    IF name \in catalog THEN "duplicate_role" ELSE "created"

\* db.execute of create_user_in_role; the statement waits while another
\* session holds an uncommitted role of the same name
create_user_in_role(r) ==
    /\ req[r].pc = "create"
    /\ LET c == r IN
       /\ \A d \in Sessions \ {c} : rolname(r) \notin sess[d].pending
       /\ \E dbok \in BOOLEAN :
            IF ~dbok
            THEN /\ req' = Leave(r, 500, "db_error", "create")
                 /\ sess' = sess
            ELSE IF CreateRoleResult(roles, rolname(r)) = "duplicate_role"
            THEN /\ req' = Leave(r, 500, "duplicate_role", "create")
                 /\ sess' = sess
            ELSE /\ req' = Advance(r, "commit", "create")
                 /\ sess' = [sess EXCEPT ![c].pending = @ \cup {rolname(r)}]
    /\ UNCHANGED <<roles, crudVars, parseVars, groupVars>>

\* db.commit(): the transaction's catalog rows and SET commands become durable
CommitSession(c) == [sess EXCEPT ![c].durable = sess[c].auth, ![c].pending = {}]

commit_role(r) ==
    /\ req[r].pc = "commit"
    /\ req' = Advance(r, "reset2", "commit")
    /\ roles' = roles \cup sess[r].pending
    /\ sess' = CommitSession(r)
    /\ UNCHANGED <<crudVars, parseVars, groupVars>>

set_session_user(r) ==
    /\ req[r].pc = "set"
    /\ \E dbok \in BOOLEAN :
         IF dbok
         THEN /\ req' = Advance(r, "read4", "set")
              /\ sess' = [sess EXCEPT ![r].auth = Lower(db_user(r))]
         ELSE /\ req' = Leave(r, 500, "db_error", "set")
              /\ sess' = sess
    /\ UNCHANGED <<roles, crudVars, parseVars, groupVars>>

\* get_current_active_user / get_current_active_superuser
GatePasses(gate, user) ==
    IF gate = "active" THEN user.is_active ELSE user.is_superuser

\* the guard the endpoint of the request declares runs on the user that
\* get_current_user_async returned
auth_gate(r) ==
    /\ req[r].pc = "gate"
    /\ \E gate \in Gates :
         req' = IF GatePasses(gate, req[r].user)
                THEN [req EXCEPT ![r].pc = "body"]
                ELSE Leave(r, 400, "gate", "")
    /\ UNCHANGED <<sess, roles, crudVars, parseVars, groupVars>>

\* the endpoint's own database work: a read, or a mutation that commits
endpoint_body(r) ==
    /\ req[r].pc = "body"
    /\ \E commits \in BOOLEAN :
         /\ req' = [Advance(r, "teardown", IF commits THEN "write" ELSE "select")
                        EXCEPT ![r].status = 200]
         /\ sess' = IF commits THEN CommitSession(r) ELSE sess
    /\ UNCHANGED <<roles, crudVars, parseVars, groupVars>>

Running == {"token", "lookup", "read1", "reset1", "read2", "check", "create",
            "commit", "reset2", "read3", "set", "read4", "gate", "body"}

\* the request is abandoned at a suspension point
request_timeout(r) ==
    /\ req[r].pc \in Running
    /\ req' = Leave(r, 504, "timeout", "")
    /\ UNCHANGED <<sess, roles, crudVars, parseVars, groupVars>>

\* leaving "async with AsyncSessionFactory()": the open transaction is rolled
\* back, which undoes its uncommitted SET commands and catalog rows, and the
\* session goes back to the pool.  No reset statement is issued.  The request
\* is over; its slot serves the next request.
CloseSession(c) == [sess EXCEPT ![c].auth = sess[c].durable, ![c].pending = {}]

get_db_exit(r) ==
    /\ req[r].pc = "teardown"
    /\ req' = [req EXCEPT ![r] = IdleRequest]
    /\ sess' = CloseSession(r)
    /\ UNCHANGED <<roles, crudVars, parseVars, groupVars>>

(***************************************************************************)
(* The task_students and users endpoints.  Each action is one request that *)
(* passed its authentication guard; resp is the response it is answered.   *)
(***************************************************************************)
Statuses == {"pending", "started", "completed"}

NoTask == [present |-> FALSE, status |-> "none"]

\* crud.task_student.get
get_task(id) ==
    IF id \in DOMAIN tasks THEN [present |-> TRUE, status |-> tasks[id]] ELSE NoTask

\* crud.*.remove: the row of that id is deleted
Remove(table, id) == [k \in DOMAIN table \ {id} |-> table[k]]

Response(op, id, code, detail) == [op |-> op, id |-> id, code |-> code, detail |-> detail]

create_task_student(id, status) ==
    /\ id \notin DOMAIN tasks
    /\ tasks' = (id :> status) @@ tasks
    /\ resp' = Response("create_task", id, 200, "")
    /\ UNCHANGED <<authVars, users, groupVars>>

update_task_student_id(id, status) ==
    /\ LET item == get_task(id) IN
       IF ~item.present
       THEN /\ resp' = Response("update_task", id, 404, "Item not found")
            /\ tasks' = tasks
       ELSE /\ resp' = Response("update_task", id, 200, "")
            /\ tasks' = [tasks EXCEPT ![id] = status]
    /\ UNCHANGED <<authVars, users, groupVars>>

\* variant of delete_task_student_id: the status guard is missing
delete_task_student_id_NoGuard(id) ==
    /\ IF id \notin DOMAIN tasks
       THEN /\ resp' = [op |-> "delete_task", id |-> id, code |-> 404,
                        detail |-> "Item not found"]
            /\ tasks' = tasks
       ELSE /\ resp' = [op |-> "delete_task", id |-> id, code |-> 200, detail |-> ""]
            /\ tasks' = [k \in DOMAIN tasks \ {id} |-> tasks[k]]
    /\ UNCHANGED <<req, sess, roles, users, pin, pout, groupVars>>

delete_task_student_id(id) ==
    /\ LET item == get_task(id) IN
       IF ~item.present
       THEN /\ resp' = Response("delete_task", id, 404, "Item not found")
            /\ tasks' = tasks
       ELSE IF item.status # "completed"
       THEN /\ resp' = Response("delete_task", id, 404, "Uncompleted task cannot be removed")
            /\ tasks' = tasks
       ELSE /\ resp' = Response("delete_task", id, 200, "")
            /\ tasks' = Remove(tasks, id)
    /\ UNCHANGED <<authVars, users, groupVars>>

UserIds == DOMAIN InitUsers

update_user(id, active, super) ==
    /\ LET user == get_by_id(id) IN
       IF ~user.found
       THEN /\ resp' = Response("update_user", id, 404,
                                "The user with this username does not exist in the system")
            /\ users' = users
       ELSE /\ resp' = Response("update_user", id, 200, "")
            /\ users' = [users EXCEPT ![id].is_active = active,
                                      ![id].is_superuser = super]
    /\ UNCHANGED <<authVars, tasks, groupVars>>

\* variant of delete_user: the superuser guard is missing
delete_user_NoSuperuserGuard(id) ==
    /\ IF id \notin DOMAIN users
       THEN /\ resp' = [op |-> "delete_user", id |-> id, code |-> 404,
                        detail |-> "Item not found"]
            /\ users' = users
       ELSE IF users[id].is_active
       THEN /\ resp' = [op |-> "delete_user", id |-> id, code |-> 404,
                        detail |-> "Acive user cannot be removed"]
            /\ users' = users
       ELSE /\ resp' = [op |-> "delete_user", id |-> id, code |-> 200, detail |-> ""]
            /\ users' = [k \in DOMAIN users \ {id} |-> users[k]]
    /\ UNCHANGED <<req, sess, roles, tasks, pin, pout, groupVars>>

delete_user(id) ==
    /\ LET item == get_by_id(id) IN
       IF ~item.found
       THEN /\ resp' = Response("delete_user", id, 404, "Item not found")
            /\ users' = users
       ELSE IF item.is_active
       THEN /\ resp' = Response("delete_user", id, 404, "Acive user cannot be removed")
            /\ users' = users
       ELSE IF item.is_superuser
       THEN /\ resp' = Response("delete_user", id, 404, "Superuser cannot be removed")
            /\ users' = users
       ELSE /\ resp' = Response("delete_user", id, 200, "")
            /\ users' = Remove(users, id)
    /\ UNCHANGED <<authVars, tasks, groupVars>>

NextCrud ==
    \/ \E id \in TaskIds, status \in Statuses : create_task_student(id, status)
    \/ \E id \in TaskIds, status \in Statuses : update_task_student_id(id, status)
    \/ \E id \in TaskIds : delete_task_student_id(id)
    \/ \E id \in UserIds, active \in BOOLEAN, super \in BOOLEAN :
          update_user(id, active, super)
    \/ \E id \in UserIds : delete_user(id)

(***************************************************************************)
(* parse_react_admin_params.  The three query parameters are modelled      *)
(* after json.loads; a JSON value is a record tagged with its Python type. *)
(***************************************************************************)
JVal(t, str, n, l) == [t |-> t, s |-> str, n |-> n, l |-> l]

JNull == JVal("null", <<>>, 0, <<>>)
JStr(str) == JVal("str", str, 0, <<>>)
JInt(n) == JVal("int", <<>>, n, <<>>)
JBool(n) == JVal("bool", <<>>, n, <<>>)
JFloat == JVal("float", <<"1", ".", "5">>, 0, <<>>)
JObj == JVal("dict", <<"{", "}">>, 0, <<>>)
JList(l) == JVal("list", <<>>, 0, l)
\* the value datetime.fromisoformat returns
JDate(y, m, d) == JVal("datetime", <<>>, 0, <<y, m, d>>)

\* isinstance(v, int): bool is a subclass of int
IsInt(v) == v.t \in {"int", "bool"}

DigitChar(n) ==
    CASE n = 0 -> "0" [] n = 1 -> "1" [] n = 2 -> "2" [] n = 3 -> "3"
      [] n = 4 -> "4" [] n = 5 -> "5" [] n = 6 -> "6" [] n = 7 -> "7"
      [] n = 8 -> "8" [] n = 9 -> "9"

RECURSIVE NatToStr(_)
NatToStr(n) == IF n < 10 THEN <<DigitChar(n)>>
               ELSE Append(NatToStr(n \div 10), DigitChar(n % 10))

\* str(x)
Str(v) ==
    CASE v.t = "str" -> v.s
      [] v.t = "int" -> IF v.n < 0 THEN <<"-">> \o NatToStr(-v.n) ELSE NatToStr(v.n)
      [] v.t = "bool" -> IF v.n = 1 THEN <<"T", "r", "u", "e">>
                         ELSE <<"F", "a", "l", "s", "e">>
      [] v.t = "null" -> <<"N", "o", "n", "e">>
      [] v.t = "list" -> <<"[", "]">>
      [] OTHER -> v.s

\* str.split('_')[-1]: what follows the last underscore
LastSegment(s) ==
    LET cuts == {i \in DOMAIN s : s[i] = "_"} IN
    IF cuts = {} THEN s
    ELSE LET last == CHOOSE i \in cuts : \A j \in cuts : j <= i IN
         SubSeq(s, last + 1, Len(s))

date == <<"d", "a", "t", "e">>

DaysIn(y, m) ==
    IF m \in {4, 6, 9, 11} THEN 30
    ELSE IF m # 2 THEN 31
    ELSE IF (y % 4 = 0 /\ y % 100 # 0) \/ y % 400 = 0 THEN 29 ELSE 28

\* datetime.fromisoformat on a date without a time: YYYY-MM-DD
IsIsoDate(s) ==
    /\ Len(s) = 10
    /\ s[5] = "-" /\ s[8] = "-"
    /\ \A i \in {1, 2, 3, 4, 6, 7, 9, 10} : s[i] \in AsciiDigits
    /\ LET y == IntOf(SubSeq(s, 1, 4))
           m == IntOf(SubSeq(s, 6, 7))
           d == IntOf(SubSeq(s, 9, 10))
       IN y >= 1 /\ m \in 1 .. 12 /\ d \in 1 .. DaysIn(y, m)

fromisoformat(s) ==
    JDate(IntOf(SubSeq(s, 1, 4)), IntOf(SubSeq(s, 6, 7)), IntOf(SubSeq(s, 9, 10)))

\* column names
c_id == <<"i", "d">>
c_name == <<"n", "a", "m", "e">>
c_role == <<"r", "o", "l", "e">>
c_start_date == <<"s", "t", "a", "r", "t", "_", "d", "a", "t", "e">>

\* model.__table__.c of the entity the endpoint lists
Columns == {c_id, c_name, c_role, c_start_date}

\* classifiers.pg_custom_type_colnames
pg_custom_type_colnames == {c_role}

\* how a call ends: RequestParams, an HTTPException, or an exception nobody
\* handles
NoOrder == [col |-> <<>>, dir |-> "none"]
NoFilter == [present |-> FALSE, leaves |-> <<>>]

Outcome(kind, code, detail, skip, limit, order_by, filter_by) ==
    [kind |-> kind, code |-> code, detail |-> detail, skip |-> skip,
     limit |-> limit, order_by |-> order_by, filter_by |-> filter_by]

RequestParams(skip, limit, order_by, filter_by) ==
    Outcome("RequestParams", 200, "", skip, limit, order_by, filter_by)
HTTPException(code, detail) ==
    Outcome("HTTPException", code, detail, 0, 0, NoOrder, NoFilter)
Unhandled(exc) ==
    Outcome("unhandled", 500, exc, 0, 0, NoOrder, NoFilter)
NotCalled == Outcome("none", 0, "", 0, 0, NoOrder, NoFilter)

Leaf(col, op, arg) == [col |-> col, op |-> op, arg |-> arg]

\* one step of the loop "for k, v in filter_dict.items()": the leaf appended,
\* or the exception raised
Raised(how, what) == [raised |-> TRUE, how |-> how, what |-> what, leaf |-> Leaf(<<>>, "", JNull)]
Appended(leaf) == [raised |-> FALSE, how |-> "", what |-> "", leaf |-> leaf]

\* model.__table__.c[k] followed by the comparison
OnColumn(k, op, arg) ==
    IF k \in Columns THEN Appended(Leaf(k, op, arg)) ELSE Raised("unhandled", "KeyError")

\* [int(x) for x in v]
CoerceInts(l) ==
    [i \in DOMAIN l |-> IF l[i].t = "str" THEN JInt(IntOf(l[i].s)) ELSE JInt(l[i].n)]

FilterStep(k, v) ==
    IF v.t = "null" THEN OnColumn(k, "is_null", JNull)
    ELSE IF v.t = "str" THEN
        IF k \in pg_custom_type_colnames THEN OnColumn(k, "eq", v)
        ELSE IF LastSegment(k) = date THEN
            IF k \notin Columns THEN Raised("unhandled", "KeyError")
            ELSE IF ~IsIsoDate(v.s) THEN Raised("unhandled", "ValueError")
            ELSE OnColumn(k, "ge", fromisoformat(v.s))
        ELSE OnColumn(k, "ilike_prefix", v)
    ELSE IF IsInt(v) THEN OnColumn(k, "eq", v)
    ELSE IF v.t = "list" THEN
        IF Len(v.l) = 0 THEN Raised("unhandled", "IndexError")
        ELSE IF v.l[1].t = "list" THEN OnColumn(k, "in", JList(v.l[1].l))
        ELSE IF \A i \in DOMAIN v.l : IsDigit(Str(v.l[i])) THEN
            IF \E i \in DOMAIN v.l : v.l[i].t = "str" /\ ~IntAccepts(v.l[i].s)
            THEN Raised("unhandled", "ValueError")
            ELSE OnColumn(k, "in", JList(CoerceInts(v.l)))
        ELSE OnColumn(k, "in", v)
    ELSE Raised("HTTPException", "Invalid filters")

\* the keys that survive "str(it[0]).isdigit() is False", in order
RECURSIVE NonNumeric(_)
NonNumeric(ft) ==
    IF Len(ft) = 0 THEN <<>>
    ELSE IF IsDigit(Head(ft).k) THEN NonNumeric(Tail(ft))
    ELSE <<Head(ft)>> \o NonNumeric(Tail(ft))

\* the loop over filter_dict: the leaves in order, or the first exception
RECURSIVE FilterLoop(_, _)
FilterLoop(items, fb) ==
    IF Len(items) = 0 THEN [raised |-> FALSE, how |-> "", what |-> "", fb |-> fb]
    ELSE LET step == FilterStep(Head(items).k, Head(items).v) IN
         IF step.raised
         THEN [raised |-> TRUE, how |-> step.how, what |-> step.what, fb |-> <<>>]
         ELSE FilterLoop(Tail(items), Append(fb, step.leaf))

\* a query parameter that was not sent, or sent empty
Absent == [given |-> FALSE, v |-> <<>>]
Given(v) == [given |-> TRUE, v |-> v]

asc == <<"a", "s", "c">>
desc == <<"d", "e", "s", "c">>

DefaultSkip == 0
DefaultLimit == 50

\* the range counted as the end exclusive
RangeLimit_EndExclusive(start, end) == end - start

\* limit of the inclusive range [start, end]
RangeLimit(start, end) == end - start + 1

parse_react_admin_params(range_, sort_, filter_) ==
    LET skip == IF range_.given THEN range_.v[1] ELSE DefaultSkip
        limit == IF range_.given THEN RangeLimit(range_.v[1], range_.v[2]) ELSE DefaultLimit
        sort_column == sort_.v[1]
        sort_order == sort_.v[2]
        order_by == IF sort_.given
                    THEN [col |-> sort_column,
                          dir |-> IF Lower(sort_order) = asc THEN "asc" ELSE "desc"]
                    ELSE [col |-> c_id, dir |-> "desc"]
        loop == IF filter_.given /\ Len(filter_.v) > 0
                THEN FilterLoop(NonNumeric(filter_.v), <<>>)
                ELSE FilterLoop(<<>>, <<>>)
        filter_by == IF Len(loop.fb) > 0
                     THEN [present |-> TRUE, leaves |-> loop.fb]
                     ELSE NoFilter
    IN  IF sort_.given /\ Lower(sort_order) \notin {asc, desc}
        THEN HTTPException(400, "Invalid sort direction")
        ELSE IF sort_.given /\ sort_column \notin Columns
        THEN Unhandled("KeyError")
        ELSE IF loop.raised /\ loop.how = "HTTPException"
        THEN HTTPException(400, loop.what)
        ELSE IF loop.raised
        THEN Unhandled(loop.what)
        ELSE RequestParams(skip, limit, order_by, filter_by)

(***************************************************************************)
(* The inputs the parser is run on                                         *)
(***************************************************************************)
FilterKeys == {c_name, c_role, c_start_date, <<"z">>, <<"7">>}

ValidDate == <<"2", "0", "2", "3", "-", "0", "2", "-", "2", "8">>
InvalidDate == <<"2", "0", "2", "3", "-", "0", "2", "-", "3", "0">>

FilterValues ==
    { JNull, JStr(<<"a">>), JStr(ValidDate), JStr(InvalidDate), JInt(5), JBool(1),
      JFloat, JObj,
      JList(<<>>),
      JList(<<JInt(1), JStr(<<"2">>)>>),
      JList(<<JStr(<<"a">>), JInt(1)>>),
      JList(<<JStr(<<"sup2">>)>>),
      JList(<<JList(<<JStr(<<"a">>), JStr(<<"1">>)>>)>>) }

Pair(k, v) == [k |-> k, v |-> v]

\* JSON objects of at most MaxKeys keys, in the order the keys were written
RECURSIVE FilterObjects(_)
FilterObjects(n) ==
    IF n = 0 THEN {<<>>}
    ELSE LET shorter == FilterObjects(n - 1) IN
         shorter \cup
         { Append(ft, Pair(k, v)) :
             ft \in {f \in shorter : Len(f) = n - 1},
             k \in FilterKeys, v \in FilterValues }

DistinctKeys(ft) == \A i, j \in DOMAIN ft : ft[i].k = ft[j].k => i = j

Ranges == {Absent} \cup {Given(<<a, b>>) : a \in -1 .. 2, b \in -1 .. 2}

Sorts == {Absent} \cup
         { Given(<<col, ord>>) :
             col \in {c_id, c_name, <<"z">>},
             ord \in {asc, <<"D", "E", "S", "C">>, <<"A", "s", "c">>, <<"u", "p">>} }

Filters(n) == {Absent} \cup {Given(ft) : ft \in {f \in FilterObjects(n) : DistinctKeys(f)}}

Query(range_, sort_, filter_) == [range_ |-> range_, sort_ |-> sort_, filter_ |-> filter_]

\* each parameter is varied with the other two absent, and the filter also
\* together with a sort
Queries(n) ==
    {Query(r, Absent, Absent) : r \in Ranges} \cup
    {Query(Absent, st, Absent) : st \in Sorts} \cup
    {Query(Absent, st, f) : st \in {Absent, Given(<<<<"z">>, asc>>)}, f \in Filters(n)}

\* the dependency runs once per request
call_parse ==
    /\ pout = NotCalled
    /\ pout' = parse_react_admin_params(pin.range_, pin.sort_, pin.filter_)
    /\ UNCHANGED <<req, sess, roles, crudVars, pin, groupVars>>


(***************************************************************************)
(* CRUDStudyGroup.create_with_disciplines.  One call runs at a time on its *)
(* own session; the table keeps the rows of the calls before it.           *)
(***************************************************************************)
GroupIds == {1, 2}
DisciplineIds == {1, 2}

\* self.model(**_obj_in.dict())
StudyGroup(id, discipline_id) == [id |-> id, discipline_id |-> discipline_id]

\* the discipline_id lists of obj_in
RECURSIVE DisciplineLists(_)
DisciplineLists(n) ==
    IF n = 0 THEN {<<>>}
    ELSE LET shorter == DisciplineLists(n - 1) IN
         shorter \cup
         { Append(l, d) : l \in {x \in shorter : Len(x) = n - 1}, d \in DisciplineIds }

\* the locals of a call: obj_in, the position in the for loop, the object
\* added to the session and not yet committed, and how the call ended.  base
\* is the number of rows the table held when the call began.
Call(pc, scg_id, discipline_id, i, pending, base, raised, result) ==
    [pc |-> pc, scg_id |-> scg_id, discipline_id |-> discipline_id, i |-> i,
     pending |-> pending, base |-> base, raised |-> raised, result |-> result]

NoCall == Call("idle", 0, <<>>, 0, <<>>, 0, "none", <<>>)

\* line 19: scg_id = obj_in.id
create_with_disciplines(id, discipline_id) ==
    /\ cwd.pc = "idle"
    /\ Len(study_groups) + Len(discipline_id) <= MaxRows
    /\ cwd' = Call("for", id, discipline_id, 0, <<>>, Len(study_groups), "none", <<>>)
    /\ UNCHANGED <<authVars, crudVars, study_groups>>

\* line 20: the for statement takes the next discipline id or leaves the loop
for_discipline_id ==
    /\ cwd.pc = "for"
    /\ IF cwd.i < Len(cwd.discipline_id)
       THEN cwd' = [cwd EXCEPT !.i = cwd.i + 1, !.pc = "add"]
       ELSE cwd' = [cwd EXCEPT !.pc = "select"]
    /\ UNCHANGED <<authVars, crudVars, study_groups>>

\* lines 21-26: the object of this discipline id is added to the session
db_add ==
    /\ cwd.pc = "add"
    /\ cwd' = [cwd EXCEPT !.pending = <<StudyGroup(cwd.scg_id, cwd.discipline_id[cwd.i])>>,
                          !.pc = "commit"]
    /\ UNCHANGED <<authVars, crudVars, study_groups>>

\* a failed commit that would also undo the rows the call committed before
db_commit_AllOrNothing ==
    /\ cwd.pc = "commit"
    /\ \E ok \in BOOLEAN :
          IF ok
          THEN /\ study_groups' = study_groups \o cwd.pending
               /\ cwd' = [cwd EXCEPT !.pending = <<>>, !.pc = "refresh"]
          ELSE /\ study_groups' = SubSeq(study_groups, 1, cwd.base)
               /\ cwd' = [cwd EXCEPT !.pending = <<>>, !.pc = "done", !.raised = "commit"]
    /\ UNCHANGED <<authVars, crudVars>>

\* line 27: the INSERT is flushed and the transaction committed; when either
\* fails the exception leaves the call and the pending object is rolled back
db_commit ==
    /\ cwd.pc = "commit"
    /\ \E ok \in BOOLEAN :
          IF ok
          THEN /\ study_groups' = study_groups \o cwd.pending
               /\ cwd' = [cwd EXCEPT !.pending = <<>>, !.pc = "refresh"]
          ELSE /\ study_groups' = study_groups
               /\ cwd' = [cwd EXCEPT !.pending = <<>>, !.pc = "done", !.raised = "commit"]
    /\ UNCHANGED <<authVars, crudVars>>

\* line 28: the row is read back; a failure here leaves the call as well
db_refresh ==
    /\ cwd.pc = "refresh"
    /\ \E ok \in BOOLEAN :
          IF ok
          THEN cwd' = [cwd EXCEPT !.pc = "for"]
          ELSE cwd' = [cwd EXCEPT !.pc = "done", !.raised = "refresh"]
    /\ UNCHANGED <<authVars, crudVars, study_groups>>

\* select(self.model).where(self.model.id == scg_id)
RowsOf(id) == SelectSeq(study_groups, LAMBDA row : row.id = id)

\* lines 29-30: the rows of the group are selected and returned
db_select ==
    /\ cwd.pc = "select"
    /\ cwd' = [cwd EXCEPT !.result = RowsOf(cwd.scg_id), !.pc = "done"]
    /\ UNCHANGED <<authVars, crudVars, study_groups>>

\* the caller is done with the call
leave_call ==
    /\ cwd.pc = "done"
    /\ cwd' = NoCall
    /\ UNCHANGED <<authVars, crudVars, study_groups>>

NextGroup ==
    \/ \E id \in GroupIds, discipline_id \in DisciplineLists(MaxDisciplines) :
          create_with_disciplines(id, discipline_id)
    \/ for_discipline_id
    \/ db_add
    \/ db_commit
    \/ db_refresh
    \/ db_select
    \/ leave_call

NoQuery == Query(Absent, Absent, Absent)

Init ==
    /\ req = [r \in Sessions |-> IdleRequest]
    /\ sess = [c \in Sessions |-> FreshSession]
    /\ roles = {}
    /\ users = InitUsers
    /\ tasks = <<>>
    /\ resp = Response("none", 0, 0, "")
    /\ pin = NoQuery
    /\ pout = NotCalled
    /\ study_groups = <<>>
    /\ cwd = NoCall

Next ==
    \E r \in Sessions :
        \/ get_db(r)
        \/ decode_token(r)
        \/ lookup_user(r)
        \/ get_session_user(r)
        \/ reset_session_user(r)
        \/ check_rolname(r)
        \/ create_user_in_role(r)
        \/ commit_role(r)
        \/ set_session_user(r)
        \/ auth_gate(r)
        \/ endpoint_body(r)
        \/ request_timeout(r)
        \/ get_db_exit(r)

Spec == Init /\ [][Next]_vars

\* the CRUD endpoints taken alone
SpecCrud == Init /\ [][NextCrud]_vars

\* parse_react_admin_params on each query of Queries
InitParse ==
    /\ req = [r \in Sessions |-> IdleRequest]
    /\ sess = [c \in Sessions |-> FreshSession]
    /\ roles = {}
    /\ users = InitUsers
    /\ tasks = <<>>
    /\ resp = Response("none", 0, 0, "")
    /\ pin \in Queries(MaxKeys)
    /\ pout = NotCalled
    /\ study_groups = <<>>
    /\ cwd = NoCall

SpecParse == InitParse /\ [][call_parse]_vars

\* create_with_disciplines, call after call
SpecGroup == Init /\ [][NextGroup]_vars

(***************************************************************************)
(* Properties of the authentication chain                                  *)
(***************************************************************************)
IsPrefix(s, t) == Len(s) <= Len(t) /\ SubSeq(t, 1, Len(s)) = s

Has(log, what) == \E i \in DOMAIN log : log[i] = what

Count(log, what) == Cardinality({i \in DOMAIN log : log[i] = what})

\* the statements of get_current_user_async, lines 55-69, when the role has
\* to be created and when it exists
ChainCreating ==
    <<"select_user", "read", "reset", "read", "check", "create", "commit",
      "reset", "read", "set", "read">>
ChainExisting ==
    <<"select_user", "read", "reset", "read", "check", "reset", "read", "set", "read">>

Authenticated == {"gate", "body"}

\* C1: whatever the interleaving of first-time authentications of one active
\* identity, none ends in a fatal role-already-exists conflict, and every
\* request that finished the chain has the role in the catalog and its session
\* authorized as that role.
C1_ConcurrentFirstAuthConverges ==
    \A r \in Sessions :
        /\ req[r].fault # "duplicate_role"
        /\ req[r].pc \in Authenticated =>
              rolname(r) \in roles /\ sess[r].auth = rolname(r)

\* C2: a session is never in the pool, nor handed to a request that has not
\* yet reset it, while still authorized as a role: the authorization is reset
\* to the default when the request that set it ends.
C2_NoIdentityLeak ==
    /\ \A c \in pool : sess[c].auth = Default
    /\ \A r \in Sessions : req[r].pc \in {"token", "lookup"} => sess[r].auth = Default

\* C3: a request of an inactive identity never gets past the active check of
\* check_rolname: it issues neither the role-catalog lookup, nor the role
\* creation, nor set session authorization, reaches no guard (active or
\* superuser), and leaves with 400 'user is not active'.
C3_InactiveNeverImpersonates ==
    \A r \in Sessions :
        (req[r].user.found /\ ~req[r].user.is_active) =>
            /\ req[r].pc \in {"read1", "reset1", "read2", "check", "teardown"}
            /\ ~Has(req[r].log, "check")
            /\ ~Has(req[r].log, "create")
            /\ ~Has(req[r].log, "commit")
            /\ ~Has(req[r].log, "set")
            /\ sess[r].pending = {}
            /\ req[r].pc = "teardown" =>
                  \/ req[r].status = 400 /\ req[r].fault = "user is not active"
                  \/ req[r].fault = "timeout"

C3_Witness ==
    \E r \in Sessions :
        /\ req[r].user.found /\ ~req[r].user.is_active /\ req[r].user.is_superuser
        /\ req[r].pc = "teardown"
        /\ req[r].status = 400
        /\ req[r].fault = "user is not active"
        /\ req[r].log = <<"select_user", "read", "reset", "read">>

\* C4: the statements a request issues follow the order read, reset, read,
\* check (plus create and commit when the role is absent), reset, read, set,
\* read; set is issued at most once, directly after a reset and a read of the
\* same session, and only when the role is in the catalog; create is issued
\* only after a check that found nothing.
C4_StatementOrder ==
    \A r \in Sessions :
        LET log == req[r].log IN
        /\ \/ IsPrefix(log, ChainCreating)
           \/ IsPrefix(log, ChainExisting)
           \/ \E b \in {"select", "write"} :
                 log \in {Append(ChainCreating, b), Append(ChainExisting, b)}
        /\ Count(log, "set") <= 1
        /\ \A i \in DOMAIN log :
              log[i] = "set" => i > 2 /\ log[i - 1] = "read" /\ log[i - 2] = "reset"
        /\ Has(log, "set") => rolname(r) \in roles
        /\ Has(log, "set") => req[r].check \/ Has(log, "commit")
        /\ Has(log, "create") => ~req[r].check
        /\ req[r].pc \in Authenticated =>
              log = IF req[r].check THEN ChainExisting ELSE ChainCreating

C4_Witness ==
    \E r, q \in Sessions :
        /\ req[r].pc = "gate" /\ req[r].log = ChainCreating
        /\ req[q].pc = "gate" /\ req[q].log = ChainExisting

\* C5: a request that failed at role creation or at the role switch has left
\* no committed role-catalog change behind, and its session is not left
\* impersonating a role once get_db has closed it.
C5_NoHalfAppliedState ==
    \A r \in Sessions :
        (req[r].pc = "teardown" /\ req[r].fault \in {"db_error", "duplicate_role"}) =>
            /\ ~Has(req[r].log, "commit")
            /\ CloseSession(r)[r].auth = Default

\* a subject that is the decimal numeral of an identity id
NumericSubject(t) == t.sig /\ t.hasSub /\ IntAccepts(t.sub)

\* C6: a request whose token fails decoding, has no subject or has a subject
\* that is no number is answered 401 without any statement on the session,
\* the identity lookup included; a numeric subject that matches no identity
\* is answered 401 with the identity lookup as its only statement.
C6_BadTokenUnauthorized ==
    \A r \in Sessions :
        (req[r].pc = "teardown" /\ req[r].fault # "timeout") =>
            /\ ~NumericSubject(req[r].token) =>
                  req[r].status = 401 /\ req[r].log = <<>>
            /\ (NumericSubject(req[r].token) /\ ~req[r].user.found) =>
                  req[r].status = 401 /\ req[r].log = <<"select_user">>

(***************************************************************************)
(* Properties of the guarded deletes                                       *)
(***************************************************************************)
\* C7: in every step, a delete request for an absent task is answered not
\* found, one for a task that is not 'completed' is answered with the guard
\* error, and both leave the table as it was; a task leaves the table only in
\* the step of a delete request for it, made while its status is 'completed'.
C7_Step ==
    \A id \in TaskIds :
        /\ (id \in DOMAIN tasks /\ id \notin DOMAIN tasks') =>
              /\ tasks[id] = "completed"
              /\ resp' = Response("delete_task", id, 200, "")
        /\ (resp' # resp /\ resp'.op = "delete_task" /\ resp'.id = id) =>
              IF id \notin DOMAIN tasks
              THEN resp'.code = 404 /\ resp'.detail = "Item not found" /\ tasks' = tasks
              ELSE IF tasks[id] # "completed"
              THEN /\ resp'.code = 404
                   /\ resp'.detail = "Uncompleted task cannot be removed"
                   /\ tasks' = tasks
              ELSE resp'.code = 200 /\ tasks' = Remove(tasks, id)

\* C7: every step of the task endpoints keeps the delete guard: an
\* uncompleted task is never removed and its delete request is rejected.
C7_UncompletedTaskNotDeleted == [][C7_Step]_vars

C7_Witness ==
    /\ resp.op = "delete_task"
    /\ resp.code = 404
    /\ resp.detail = "Uncompleted task cannot be removed"
    /\ resp.id \in DOMAIN tasks
    /\ tasks[resp.id] = "started"

\* C8: in every step, a user record leaves the table only in the step of a
\* delete request for it, made while it is inactive and no superuser; a delete
\* request for an active user or for a superuser is rejected and leaves the
\* table as it was.
C8_Step ==
    \A id \in UserIds :
        /\ (id \in DOMAIN users /\ id \notin DOMAIN users') =>
              /\ ~users[id].is_active
              /\ ~users[id].is_superuser
              /\ resp' = Response("delete_user", id, 200, "")
        /\ (resp' # resp /\ resp'.op = "delete_user" /\ resp'.id = id
                /\ id \in DOMAIN users
                /\ (users[id].is_active \/ users[id].is_superuser)) =>
              resp'.code # 200 /\ users' = users

\* C8: every step of the user endpoints keeps the delete guard: only an
\* inactive user that is no superuser is ever removed.
C8_OnlyInactiveNonSuperuserDeleted == [][C8_Step]_vars

C8_Witness ==
    /\ resp.op = "delete_user"
    /\ resp.code = 404
    /\ resp.detail = "Superuser cannot be removed"
    /\ resp.id \in DOMAIN users
    /\ ~users[resp.id].is_active
    /\ users[resp.id].is_superuser

(***************************************************************************)
(* Properties of parse_react_admin_params                                  *)
(***************************************************************************)
Called == pout # NotCalled

\* a value of none of the shapes the filter rules name: a float, an object,
\* an empty list
UnknownShape(v) == v.t \in {"float", "dict"} \/ (v.t = "list" /\ Len(v.l) = 0)

HasUnknownShape(q) ==
    /\ q.filter_.given
    /\ \E i \in DOMAIN q.filter_.v :
          ~IsDigit(q.filter_.v[i].k) /\ UnknownShape(q.filter_.v[i].v)

\* the sort parameter is absent, or names a column and a direction
SortAccepted(q) ==
    q.sort_.given => q.sort_.v[1] \in Columns /\ Lower(q.sort_.v[2]) \in {asc, desc}

\* C9: a filter object in which some non-numeric key has a value of an
\* unknown shape makes the call end with the client-facing rejection
\* 'Invalid filters' (400): neither with RequestParams nor with an exception
\* nobody handles.
C9_UnknownShapeRejected ==
    (Called /\ HasUnknownShape(pin) /\ SortAccepted(pin)) =>
        pout = HTTPException(400, "Invalid filters")

\* C10: every call ends with RequestParams or with a client-facing rejection,
\* never with an exception nobody handles.
C10_NoUnhandledFault ==
    Called => pout.kind \in {"RequestParams", "HTTPException"}

(***************************************************************************)
(* The reference classification of a filter object                         *)
(***************************************************************************)
EndsWith(s, suffix) ==
    /\ Len(s) >= Len(suffix)
    /\ SubSeq(s, Len(s) - Len(suffix) + 1, Len(s)) = suffix

\* a string of decimal digits
AllDigits(s) == Len(s) > 0 /\ \A i \in DOMAIN s : s[i] \in AsciiDigits

\* the shapes the classification names: null, a string, an integer, a
\* non-empty list
RecognisedShape(v) == v.t \in {"null", "str", "int"} \/ (v.t = "list" /\ Len(v.l) > 0)

RefInts(l) == [i \in DOMAIN l |-> JInt(IntOf(Str(l[i])))]

RefLeaf(k, v) ==
    CASE v.t = "null" -> Leaf(k, "is_null", JNull)
      [] v.t = "str" /\ k \in pg_custom_type_colnames -> Leaf(k, "eq", v)
      [] v.t = "str" /\ k \notin pg_custom_type_colnames /\ EndsWith(k, date) ->
            Leaf(k, "ge", fromisoformat(v.s))
      [] v.t = "str" /\ k \notin pg_custom_type_colnames /\ ~EndsWith(k, date) ->
            Leaf(k, "ilike_prefix", v)
      [] v.t = "int" -> Leaf(k, "eq", v)
      [] v.t = "list" /\ v.l[1].t = "list" -> Leaf(k, "in", JList(v.l[1].l))
      [] v.t = "list" /\ v.l[1].t # "list" ->
            IF \A i \in DOMAIN v.l : AllDigits(Str(v.l[i]))
            THEN Leaf(k, "in", JList(RefInts(v.l)))
            ELSE Leaf(k, "in", v)

\* the leaves of the keys that are not purely numeric, in the order of the
\* object
RECURSIVE RefLeaves(_)
RefLeaves(ft) ==
    IF Len(ft) = 0 THEN <<>>
    ELSE IF AllDigits(Head(ft).k) THEN RefLeaves(Tail(ft))
    ELSE <<RefLeaf(Head(ft).k, Head(ft).v)>> \o RefLeaves(Tail(ft))

RefPredicate(filter_) ==
    IF filter_.given /\ Len(RefLeaves(filter_.v)) > 0
    THEN [present |-> TRUE, leaves |-> RefLeaves(filter_.v)]
    ELSE NoFilter

\* the filter objects the classification speaks of: every key is purely
\* numeric or a column, every value on a column has a recognised shape, and
\* a string on a date column is an ISO date
Classifiable(q) ==
    /\ SortAccepted(q)
    /\ q.filter_.given =>
          \A i \in DOMAIN q.filter_.v :
              LET k == q.filter_.v[i].k
                  v == q.filter_.v[i].v
              IN  \/ AllDigits(k)
                  \/ /\ k \in Columns
                     /\ RecognisedShape(v)
                     /\ (v.t = "str" /\ k \notin pg_custom_type_colnames /\ EndsWith(k, date))
                            => IsIsoDate(v.s)

\* C11: for every filter object whose keys are numeric or columns and whose
\* values have the recognised shapes, the call returns RequestParams and its
\* predicate is the reference classification: numeric keys dropped, one leaf
\* per remaining key (IS NULL, equality, date lower bound, prefix match, IN
\* over the first inner list uncoerced, IN over a flat list coerced to
\* integers exactly when every element is written in digits), the leaves
\* AND-ed in the order of the keys, and no predicate when there is no leaf.
C11_PredicateEqualsReference ==
    (Called /\ Classifiable(pin)) =>
        /\ pout.kind = "RequestParams"
        /\ pout.filter_by = RefPredicate(pin.filter_)

\* the same, on the flat lists whose elements int() accepts
C11_EqualsReferenceOnDecimalLists ==
    (/\ Called
     /\ Classifiable(pin)
     /\ pin.filter_.given =>
           \A i \in DOMAIN pin.filter_.v :
               LET v == pin.filter_.v[i].v IN
               v.t = "list" => \A j \in DOMAIN v.l : v.l[j].t = "str" => ~IsDigit(v.l[j].s) \/ IntAccepts(v.l[j].s))
    =>  /\ pout.kind = "RequestParams"
        /\ pout.filter_by = RefPredicate(pin.filter_)

\* C12: a call given the range [start, end] and no other parameter returns
\* RequestParams with skip = start and limit = end - start + 1, whatever the
\* signs and the order of start and end; a call that returns and was given
\* no range has skip = 0 and limit = 50.
C12_RangeToSkipLimit ==
    Called =>
        /\ (pin.range_.given /\ ~pin.sort_.given /\ ~pin.filter_.given) =>
              /\ pout.kind = "RequestParams"
              /\ pout.skip = pin.range_.v[1]
              /\ pout.limit = pin.range_.v[2] - pin.range_.v[1] + 1
        /\ (~pin.range_.given /\ pout.kind = "RequestParams") =>
              /\ pout.skip = 0
              /\ pout.limit = 50

\* an inverted range with a negative end has gone through with a negative
\* limit
C12_Witness ==
    /\ Called
    /\ pin.range_.given
    /\ pin.range_.v[2] < pin.range_.v[1]
    /\ pin.range_.v[2] < 0
    /\ pout.kind = "RequestParams"
    /\ pout.limit < 0

(***************************************************************************)
(* Properties of create_with_disciplines                                   *)
(***************************************************************************)
\* the rows the table has gained since the call began
CommittedByCall == SubSeq(study_groups, cwd.base + 1, Len(study_groups))

\* the rows of the first n discipline ids of the call
Requested(n) == [j \in 1 .. n |-> [id |-> cwd.scg_id, discipline_id |-> cwd.discipline_id[j]]]

\* C13: while a call of create_with_disciplines runs and when it has ended,
\* the rows it committed are the rows of a prefix of its discipline list, in
\* the order of the list; when the commit of the k-th row failed they are the
\* first k-1 rows exactly; when the call returned they are the whole list and
\* the returned list holds every row stored under the group's id, and no
\* other row.
C13_CommittedRowsArePrefix ==
    cwd.pc # "idle" =>
        /\ Len(study_groups) >= cwd.base
        /\ Len(CommittedByCall) <= Len(cwd.discipline_id)
        /\ CommittedByCall = Requested(Len(CommittedByCall))
        /\ (cwd.pc = "done" /\ cwd.raised = "commit") =>
              Len(CommittedByCall) = cwd.i - 1
        /\ (cwd.pc = "done" /\ cwd.raised = "none") =>
              /\ Len(CommittedByCall) = Len(cwd.discipline_id)
              /\ \A j \in DOMAIN cwd.result : cwd.result[j].id = cwd.scg_id
              /\ Len(cwd.result) =
                    Cardinality({j \in DOMAIN study_groups : study_groups[j].id = cwd.scg_id})
              /\ \A j \in DOMAIN study_groups :
                    study_groups[j].id = cwd.scg_id =>
                        \E m \in DOMAIN cwd.result : cwd.result[m] = study_groups[j]

\* the commit of the second row of a call has failed and its first row is
\* still in the table
C13_Witness ==
    /\ cwd.pc = "done"
    /\ cwd.raised = "commit"
    /\ cwd.i = 2
    /\ Len(CommittedByCall) = 1
    /\ CommittedByCall[1].discipline_id = cwd.discipline_id[1]

====
